---- MODULE Spec2Model ----
(***************************************************************************)
(* A model of the label store of the Google Docs Labels content script     *)
(* (src/content.js): the labels kept per document in localStorage, the     *)
(* in-memory copy each open tab holds, the change check run on focus and   *)
(* visibility events, the scan over all stored records and the export and  *)
(* import of one label.                                                    *)
(*                                                                         *)
(* Representation of JavaScript values.                                    *)
(*  - A label (an element of a labels array) is represented by its JSON    *)
(*    text: the string a is "\"a\"", the number 7 is "7".  Two labels are  *)
(*    equal for Array.prototype.includes exactly when their JSON texts     *)
(*    are equal, and JSON.stringify of an array is the texts joined.       *)
(*  - A title, a url, a key and a typed text are the raw JavaScript        *)
(*    string.  Undefined stands for a property that is absent, and for     *)
(*    the value undefined as an element of an in-memory labels array,      *)
(*    which JSON.stringify writes as null.                                 *)
(*  - A value stored under a key is a record saying what JSON.parse makes  *)
(*    of the stored text: kind "absent" (getItem returns null),            *)
(*    "malformed" (JSON.parse throws), "null", "number", "array" (the      *)
(*    legacy form) or "object".                                            *)
(***************************************************************************)
EXTENDS Integers, Sequences, FiniteSets, TLC

VARIABLES
    store,                \* localStorage: key -> stored value
    documentId,           \* per tab: the module variable documentId
    labels,               \* per tab: the module variable labels
    lastKnownLabelsJson,  \* per tab: the module variable lastKnownLabelsJson
    draggedIndex,         \* per tab: the module variable draggedIndex
    section,              \* per tab: createLabelsSection has run
    timer,                \* per tab: the 2000 ms timeout is pending
    exported,             \* the text last returned by exportLabel
    extWrites,            \* per tab: foreign writes since its last check
    before,               \* localStorage when importLabel was last called
    last                  \* the handler that ran last, with what it saw
                          \* (dragstart and dragend are not recorded)

vars == <<store, documentId, labels, lastKnownLabelsJson, draggedIndex,
          section, timer, exported, extWrites, before, last>>

----------------------------------------------------------------------------
(* Bounds of the model. *)

\* The longest labels array a handler may build.
MaxLabels == 2

\* The most foreign writes counted between two checks of a tab.
MaxExtWrites == 2

----------------------------------------------------------------------------
(* JavaScript values. *)

Undefined == "<undefined>"

\* JSON.stringify of a string without characters that need escaping.
Str(s) == "\"" \o s \o "\""

Min(a, b) == IF a < b THEN a ELSE b
Max(a, b) == IF a < b THEN b ELSE a

\* x || y for strings and absent properties.
OrElse(x, y) == IF x = Undefined \/ x = "" THEN y ELSE x

\* !v for a value given by its JSON text (a label of a payload).
FalsyJson(v) == v \in {Undefined, "null", "false", "0", "\"\""}

\* Array.isArray-free part of JSON.stringify(labels): the texts joined by ",".
RECURSIVE JoinComma(_)
JoinComma(seq) ==
    IF seq = <<>> THEN ""
    ELSE IF Len(seq) = 1 THEN seq[1]
    ELSE seq[1] \o "," \o JoinComma(Tail(seq))

\* What JSON.stringify writes for an element of an array: null for undefined.
JsonElement(x) == IF x = Undefined THEN "null" ELSE x

\* The array JSON.parse reads from JSON.stringify(seq).
JsonArray(seq) == [i \in 1..Len(seq) |-> JsonElement(seq[i])]

\* JSON.stringify(labels).
StringifyArray(seq) == "[" \o JoinComma(JsonArray(seq)) \o "]"

\* Array.prototype.includes.
Includes(seq, v) == \E i \in 1..Len(seq) : seq[i] = v

\* seq.splice(index, 1): the start is clamped as ECMAScript does.
SpliceStart(seq, index) ==
    IF index < 0 THEN Max(Len(seq) + index, 0) ELSE Min(index, Len(seq))

\* A variant of SpliceRemove that removes the last element whatever the index.
SpliceRemoveLast(seq, index) ==
    IF seq = <<>> THEN seq ELSE SubSeq(seq, 1, Len(seq) - 1)

SpliceRemove(seq, index) ==
    LET start == SpliceStart(seq, index)
        count == Min(1, Len(seq) - start)
    IN  SubSeq(seq, 1, start) \o SubSeq(seq, start + count + 1, Len(seq))

\* seq.splice(index, 0, item).
SpliceInsert(seq, index, item) ==
    LET start == SpliceStart(seq, index)
    IN  SubSeq(seq, 1, start) \o <<item>> \o SubSeq(seq, start + 1, Len(seq))

\* draggedIndex = null
NullIndex == -1

\* labels[from], undefined past the end of the array.
ElementAt(seq, from) == IF from < Len(seq) THEN seq[from + 1] ELSE Undefined

\* A variant of Reorder that exchanges the two labels.
ReorderSwap(seq, from, to) ==
    IF from < Len(seq)
    THEN [seq EXCEPT ![from + 1] = seq[to + 1], ![to + 1] = seq[from + 1]]
    ELSE SpliceInsert(seq, to, Undefined)

\* A variant of Reorder that counts the target position in the array before
\* the removal.
ReorderShifted(seq, from, to) ==
    SpliceInsert(SpliceRemove(seq, from),
                 IF to > from THEN to - 1 ELSE to, ElementAt(seq, from))

\* The three statements of the drop listener on the labels array:
\* draggedLabel = labels[from]; labels.splice(from, 1);
\* labels.splice(to, 0, draggedLabel).
Reorder(seq, from, to) ==
    SpliceInsert(SpliceRemove(seq, from), to, ElementAt(seq, from))

----------------------------------------------------------------------------
(* Document ids, urls and keys. *)

IdChars ==
    {"a", "b", "c", "d", "e", "f", "g", "h", "i", "j", "k", "l", "m",
     "n", "o", "p", "q", "r", "s", "t", "u", "v", "w", "x", "y", "z",
     "A", "B", "C", "D", "E", "F", "G", "H", "I", "J", "K", "L", "M",
     "N", "O", "P", "Q", "R", "S", "T", "U", "V", "W", "X", "Y", "Z",
     "0", "1", "2", "3", "4", "5", "6", "7", "8", "9", "_", "-"}

CharAt(s, i) == SubSeq(s, i, i)

\* The longest run of id characters of s that starts at position i.
RECURSIVE IdRun(_, _)
IdRun(s, i) ==
    IF i <= Len(s) /\ CharAt(s, i) \in IdChars
    THEN CharAt(s, i) \o IdRun(s, i + 1)
    ELSE ""

DocPath == "/document/d/"

\* url.match(/\/document\/d\/([a-zA-Z0-9_-]+)/): the leftmost match's group,
\* or "" (for null: both are falsy, and the group is never empty).
getDocumentIdFromUrl(url) ==
    LET n == Len(DocPath)
        at == {i \in 1..Len(url) :
                  /\ i + n <= Len(url)
                  /\ SubSeq(url, i, i + n - 1) = DocPath
                  /\ CharAt(url, i + n) \in IdChars}
    IN  IF at = {} THEN ""
        ELSE IdRun(url, (CHOOSE i \in at : \A j \in at : i <= j) + n)

KeyPrefix == "gd-labels-"

\* getStorageKey(docId) of a tab whose documentId is own.
getStorageKey(docId, own) == KeyPrefix \o (IF docId = "" THEN own ELSE docId)

\* key.startsWith('gd-labels-')
StartsWithPrefix(key) ==
    Len(key) >= Len(KeyPrefix) /\ SubSeq(key, 1, Len(KeyPrefix)) = KeyPrefix

\* key.replace('gd-labels-', '') for a key that starts with the prefix.
StripPrefix(key) == SubSeq(key, Len(KeyPrefix) + 1, Len(key))

\* The url findDocumentsWithLabel gives a record that stores none.
DefaultUrl(docId) == "https://docs.google.com/document/d/" \o docId \o "/edit"

\* The documents of the model.
DocIds == {"dA", "dB"}

\* A url that names no document.
ElsewhereUrl == "https://example.com/document/"

\* The urls the model stores and imports, and the id the match gives each:
\* getDocumentIdFromUrl, computed once per url.
KnownUrls ==
    UNION {{DefaultUrl(d), DefaultUrl(d) \o "?tab=t.0",
            DefaultUrl(d) \o "#heading=h.1"} : d \in DocIds}
    \cup {ElsewhereUrl}

DocIdTable == [url \in KnownUrls |-> getDocumentIdFromUrl(url)]

DocIdOfUrl(url) ==
    IF url \in KnownUrls THEN DocIdTable[url] ELSE getDocumentIdFromUrl(url)

----------------------------------------------------------------------------
(* Stored values. *)

AbsentValue ==
    [kind |-> "absent", hasLabels |-> FALSE, labels |-> <<>>,
     title |-> Undefined, url |-> Undefined]

MalformedValue == [AbsentValue EXCEPT !.kind = "malformed"]

NullValue == [AbsentValue EXCEPT !.kind = "null"]

NumberValue == [AbsentValue EXCEPT !.kind = "number"]

\* The legacy form: a bare array of labels.
ArrayValue(labs) ==
    [kind |-> "array", hasLabels |-> TRUE, labels |-> labs,
     title |-> Undefined, url |-> Undefined]

\* JSON.stringify({labels, title, url}) as JSON.parse reads it back.
ObjectValue(labs, title, url) ==
    [kind |-> "object", hasLabels |-> TRUE, labels |-> labs,
     title |-> title, url |-> url]

\* An object stored without a labels property.
BareObjectValue(title, url) ==
    [kind |-> "object", hasLabels |-> FALSE, labels |-> <<>>,
     title |-> title, url |-> url]

\* JSON.parse(saved) throws.
ParseThrows(v) == v.kind = "malformed"

\* data.labels || [] for parsed data that is no array; reading a property of
\* null throws, which the callers below test first.
LabelsOrEmpty(v) == IF v.hasLabels THEN v.labels ELSE <<>>

----------------------------------------------------------------------------
(* The tabs and what the host page gives them. *)

Tabs == {1, 2}

\* window.location.pathname and window.location.href of a tab.
Pathname(t) == "/document/d/dA/edit"
Href(t) == "https://docs.google.com" \o Pathname(t) \o "?tab=t.0"

\* getDocumentId()
getDocumentId(t) == getDocumentIdFromUrl(Pathname(t))

\* getDocumentTitle() for the text the page shows as title.
getDocumentTitle(shown) == OrElse(shown, "Untitled")

ShownTitles == {"", "Report"}

ForeignKey == "docs-settings"

AllKeys == {getStorageKey(d, "") : d \in DocIds} \cup {ForeignKey}

\* The key of the document a tab shows.
KeyOf(t) == getStorageKey("", documentId[t])

----------------------------------------------------------------------------
(* saveLabels, loadLabels and checkAndReloadLabels as functions of what they
   read; each result holds what the function leaves behind. *)

\* A variant of saveLabels that leaves alone a record whose labels are not the
\* ones last known: the first writer wins.
saveLabelsFirstWins(st, docId, labs, json, shown, href, ok) ==
    IF docId = "" \/ ~ok THEN [store |-> st, json |-> json, saved |-> FALSE]
    ELSE LET saved == st[getStorageKey("", docId)]
         IN  IF saved.kind \in {"array", "object"}
                    /\ StringifyArray(LabelsOrEmpty(saved)) # json
             THEN [store |-> st, json |-> StringifyArray(labs), saved |-> TRUE]
             ELSE [store |-> [st EXCEPT ![getStorageKey("", docId)] =
                                 ObjectValue(JsonArray(labs),
                                             getDocumentTitle(shown), href)],
                   json |-> StringifyArray(labs), saved |-> TRUE]

\* A variant of saveLabels that takes the labels as last known before it
\* calls setItem, so that they are last known after a write that threw as well.
saveLabelsEarlySnapshot(st, docId, labs, json, shown, href, ok) ==
    IF docId = "" THEN [store |-> st, json |-> json, saved |-> FALSE]
    ELSE IF ok
    THEN [store |-> [st EXCEPT ![getStorageKey("", docId)] =
                        ObjectValue(JsonArray(labs), getDocumentTitle(shown),
                                    href)],
          json |-> StringifyArray(labs), saved |-> TRUE]
    ELSE [store |-> st, json |-> StringifyArray(labs), saved |-> FALSE]

\* saveLabels(): ok says whether localStorage.setItem returns (it throws
\* otherwise, as when the quota is exceeded).
saveLabels(st, docId, labs, json, shown, href, ok) ==
    IF docId = "" THEN [store |-> st, json |-> json, saved |-> FALSE]
    ELSE IF ok
    THEN [store |-> [st EXCEPT ![getStorageKey("", docId)] =
                        ObjectValue(JsonArray(labs), getDocumentTitle(shown),
                                    href)],
          json |-> StringifyArray(labs), saved |-> TRUE]
    ELSE [store |-> st, json |-> json, saved |-> FALSE]

\* The sequence without the elements that occurred before.
RECURSIVE Distinct(_)
Distinct(seq) ==
    IF seq = <<>> THEN <<>>
    ELSE LET front == Distinct(SubSeq(seq, 1, Len(seq) - 1))
             x == seq[Len(seq)]
         IN  IF Includes(front, x) THEN front ELSE Append(front, x)

\* A variant of loadLabels that drops the labels it has read before.
loadLabelsDistinct(st, docId, labs, json) ==
    IF docId = "" THEN [labels |-> labs, json |-> json]
    ELSE LET saved == st[getStorageKey("", docId)]
         IN  IF saved.kind = "absent"
             THEN [labels |-> labs, json |-> StringifyArray(labs)]
             ELSE IF ParseThrows(saved) \/ saved.kind = "null"
             THEN [labels |-> <<>>, json |-> "[]"]
             ELSE [labels |-> Distinct(LabelsOrEmpty(saved)),
                   json |-> StringifyArray(Distinct(LabelsOrEmpty(saved)))]

\* loadLabels()
loadLabels(st, docId, labs, json) ==
    IF docId = "" THEN [labels |-> labs, json |-> json]
    ELSE LET saved == st[getStorageKey("", docId)]
         IN  IF saved.kind = "absent"
             THEN [labels |-> labs, json |-> StringifyArray(labs)]
             ELSE IF ParseThrows(saved) \/ saved.kind = "null"
             THEN [labels |-> <<>>, json |-> "[]"]
             ELSE IF saved.kind = "array"
             THEN [labels |-> saved.labels,
                   json |-> StringifyArray(saved.labels)]
             ELSE [labels |-> LabelsOrEmpty(saved),
                   json |-> StringifyArray(LabelsOrEmpty(saved))]

\* The labels array the listeners read from a stored value.
CurrentLabels(saved) ==
    IF saved.kind = "absent" THEN <<>>
    ELSE IF saved.kind = "array" THEN saved.labels
    ELSE LabelsOrEmpty(saved)

\* The elements of a sequence.
Range(seq) == {seq[i] : i \in 1..Len(seq)}

\* A variant of checkAndReloadLabels that compares the labels as sets.
checkAndReloadLabelsUnordered(st, docId, labs, json) ==
    LET same == [labels |-> labs, json |-> json, updates |-> 0]
    IN  IF docId = "" THEN same
        ELSE LET saved == st[getStorageKey("", docId)]
             IN  IF ParseThrows(saved) \/ saved.kind = "null" THEN same
                 ELSE IF Range(CurrentLabels(saved)) # Range(labs)
                 THEN [labels |-> CurrentLabels(saved),
                       json |-> StringifyArray(CurrentLabels(saved)),
                       updates |-> 1]
                 ELSE same

\* A variant of checkAndReloadLabels that reloads whatever it reads.
checkAndReloadLabelsAlways(st, docId, labs, json) ==
    LET same == [labels |-> labs, json |-> json, updates |-> 0]
    IN  IF docId = "" THEN same
        ELSE LET saved == st[getStorageKey("", docId)]
             IN  IF ParseThrows(saved) \/ saved.kind = "null" THEN same
                 ELSE [labels |-> CurrentLabels(saved),
                       json |-> StringifyArray(CurrentLabels(saved)),
                       updates |-> 1]

\* checkAndReloadLabels(): updates counts its calls of updateLabelsDisplay.
checkAndReloadLabels(st, docId, labs, json) ==
    LET same == [labels |-> labs, json |-> json, updates |-> 0]
    IN  IF docId = "" THEN same
        ELSE LET saved == st[getStorageKey("", docId)]
                 currentLabels == CurrentLabels(saved)
                 currentJson == StringifyArray(currentLabels)
             IN  IF ParseThrows(saved) \/ saved.kind = "null" THEN same
                 ELSE IF currentJson # json
                 THEN [labels |-> currentLabels, json |-> currentJson,
                       updates |-> 1]
                 ELSE same

----------------------------------------------------------------------------
(* findDocumentsWithLabel and exportLabel.  order is the sequence in which
   localStorage.key(i) enumerates the keys that are present. *)

\* A variant of FoundEntry that does not test the prefix of the key.
FoundEntryAnyKey(key, saved, labelName, currentDocId) ==
    IF ParseThrows(saved) \/ saved.kind = "null" THEN <<>>
    ELSE LET docId == IF StartsWithPrefix(key) THEN StripPrefix(key) ELSE key
         IN  IF Includes(LabelsOrEmpty(saved), labelName)
             THEN <<[id |-> docId, title |-> "Untitled",
                     url |-> DefaultUrl(docId),
                     isCurrent |-> (docId = currentDocId)]>>
             ELSE <<>>

\* A variant of FoundEntry that reads the labels property of whatever is stored.
FoundEntryNoLegacy(key, saved, labelName, currentDocId) ==
    IF ~StartsWithPrefix(key) THEN <<>>
    ELSE IF ParseThrows(saved) \/ saved.kind # "object" THEN <<>>
    ELSE LET docId == StripPrefix(key)
         IN  IF Includes(LabelsOrEmpty(saved), labelName)
             THEN <<[id |-> docId, title |-> OrElse(saved.title, "Untitled"),
                     url |-> OrElse(saved.url, DefaultUrl(docId)),
                     isCurrent |-> (docId = currentDocId)]>>
             ELSE <<>>

\* The entry the scan makes of one key, or <<>> when it makes none.
FoundEntry(key, saved, labelName, currentDocId) ==
    IF ~StartsWithPrefix(key) THEN <<>>
    ELSE IF ParseThrows(saved) \/ saved.kind = "null" THEN <<>>
    ELSE LET docId == StripPrefix(key)
             docLabels == IF saved.kind = "array" THEN saved.labels
                          ELSE LabelsOrEmpty(saved)
             docTitle == IF saved.kind = "array" THEN "Untitled"
                         ELSE OrElse(saved.title, "Untitled")
             docUrl == IF saved.kind = "array" THEN DefaultUrl(docId)
                       ELSE OrElse(saved.url, DefaultUrl(docId))
         IN  IF Includes(docLabels, labelName)
             THEN <<[id |-> docId, title |-> docTitle, url |-> docUrl,
                     isCurrent |-> (docId = currentDocId)]>>
             ELSE <<>>

\* A variant of findDocumentsWithLabel without the try of lines 120-149: the
\* scan ends at the first stored value that makes it throw.
RECURSIVE findDocumentsWithLabelAborting(_, _, _, _)
findDocumentsWithLabelAborting(st, order, labelName, currentDocId) ==
    IF order = <<>> THEN <<>>
    ELSE IF /\ StartsWithPrefix(Head(order))
            /\ (ParseThrows(st[Head(order)]) \/ st[Head(order)].kind = "null")
    THEN <<>>
    ELSE FoundEntry(Head(order), st[Head(order)], labelName, currentDocId)
         \o findDocumentsWithLabelAborting(st, Tail(order), labelName,
                                           currentDocId)

RECURSIVE findDocumentsWithLabel(_, _, _, _)
findDocumentsWithLabel(st, order, labelName, currentDocId) ==
    IF order = <<>> THEN <<>>
    ELSE FoundEntry(Head(order), st[Head(order)], labelName, currentDocId)
         \o findDocumentsWithLabel(st, Tail(order), labelName, currentDocId)

\* What JSON.parse makes of a text handed to importLabel.
MalformedPayload ==
    [kind |-> "malformed", label |-> Undefined, docsIsArray |-> FALSE,
     documents |-> <<>>]

NullPayload == [MalformedPayload EXCEPT !.kind = "null"]

ObjectPayload(label, docs) ==
    [kind |-> "object", label |-> label, docsIsArray |-> TRUE,
     documents |-> docs]

\* An object whose documents property is no array.
NoDocsPayload(label) ==
    [kind |-> "object", label |-> label, docsIsArray |-> FALSE,
     documents |-> <<>>]

\* exportLabel(labelName): the text it returns, as JSON.parse reads it.
exportLabel(st, order, labelName, currentDocId) ==
    LET documents == findDocumentsWithLabel(st, order, labelName, currentDocId)
    IN  ObjectPayload(labelName,
            [i \in 1..Len(documents) |->
                [title |-> documents[i].title, url |-> documents[i].url]])

----------------------------------------------------------------------------
(* importLabel. *)

\* A variant of ExistingData that does not take over the labels of a legacy
\* array.
ExistingDataNoLegacy(saved, doc) ==
    LET default == ObjectValue(<<>>, OrElse(doc.title, "Untitled"), doc.url)
    IN  IF saved.kind \in {"absent", "malformed", "array"}
        THEN [usable |-> TRUE, data |-> default]
        ELSE IF saved.kind = "object"
        THEN [usable |-> TRUE,
              data |-> [saved EXCEPT !.hasLabels = TRUE,
                                     !.labels = LabelsOrEmpty(saved)]]
        ELSE [usable |-> FALSE, data |-> saved]

\* A variant of ExistingData that gives a stored object the title and url of
\* the payload entry.
ExistingDataRetitled(saved, doc) ==
    LET default == ObjectValue(<<>>, OrElse(doc.title, "Untitled"), doc.url)
    IN  IF saved.kind = "absent" \/ ParseThrows(saved)
        THEN [usable |-> TRUE, data |-> default]
        ELSE IF saved.kind = "array"
        THEN [usable |-> TRUE, data |-> [default EXCEPT !.labels = saved.labels]]
        ELSE IF saved.kind = "object"
        THEN [usable |-> TRUE,
              data |-> [default EXCEPT !.labels = LabelsOrEmpty(saved)]]
        ELSE [usable |-> FALSE, data |-> saved]

\* The record importLabel works on for one entry, before the label is added;
\* usable is FALSE when reading its labels throws.
ExistingData(saved, doc) ==
    LET default == ObjectValue(<<>>, OrElse(doc.title, "Untitled"), doc.url)
    IN  IF saved.kind = "absent" \/ ParseThrows(saved)
        THEN [usable |-> TRUE, data |-> default]
        ELSE IF saved.kind = "array"
        THEN [usable |-> TRUE, data |-> [default EXCEPT !.labels = saved.labels]]
        ELSE IF saved.kind = "object"
        THEN [usable |-> TRUE,
              data |-> [saved EXCEPT !.hasLabels = TRUE,
                                     !.labels = LabelsOrEmpty(saved)]]
        ELSE [usable |-> FALSE, data |-> saved]

\* A variant of LabelMissing that adds the label whether present or not.
LabelMissingAlways(existingLabels, labelName) == TRUE

\* The test of line 206.
LabelMissing(existingLabels, labelName) == ~Includes(existingLabels, labelName)

\* The forEach of importLabel over the entries left: writes counts the calls of
\* setItem so far, and the call numbered failAt throws.  threw names the
\* exception that left the loop, "" when none did.
RECURSIVE importDocuments(_, _, _, _, _, _, _)
importDocuments(docs, labelName, own, st, count, writes, failAt) ==
    IF docs = <<>> THEN [store |-> st, count |-> count, threw |-> ""]
    ELSE LET doc == Head(docs)
             docId == DocIdOfUrl(doc.url)
             storageKey == getStorageKey(docId, own)
             existing == ExistingData(st[storageKey], doc)
             added == [existing.data EXCEPT !.labels = @ \o <<labelName>>]
         IN  IF doc.url = Undefined \/ doc.url = "" \/ docId = ""
             THEN importDocuments(Tail(docs), labelName, own, st, count,
                                  writes, failAt)
             ELSE IF ~existing.usable
             THEN [store |-> st, count |-> count, threw |-> "TypeError"]
             ELSE IF ~LabelMissing(existing.data.labels, labelName)
             THEN importDocuments(Tail(docs), labelName, own, st, count,
                                  writes, failAt)
             ELSE IF writes + 1 = failAt
             THEN [store |-> st, count |-> count,
                   threw |-> "QuotaExceededError"]
             ELSE importDocuments(Tail(docs), labelName, own,
                                  [st EXCEPT ![storageKey] = added],
                                  count + 1, writes + 1, failAt)

\* What importLabel returns: success and message, the message given by its
\* fixed text and the values put into it (the exception caught, or the label
\* and importedCount; count is -1 in a message that holds none).
InvalidJson(error) ==
    [success |-> FALSE, message |-> "Invalid JSON: ", error |-> error,
     label |-> Undefined, count |-> -1]

InvalidFormat ==
    [success |-> FALSE,
     message |-> "Invalid JSON format. Expected { label, documents }",
     error |-> "", label |-> Undefined, count |-> -1]

Imported(labelName, importedCount) ==
    [success |-> TRUE, message |-> "Imported label to document(s).",
     error |-> "", label |-> labelName, count |-> importedCount]

\* The validation of line 174.
PayloadInvalid(importData) ==
    FalsyJson(importData.label) \/ ~importData.docsIsArray

\* importLabel(jsonString) in a tab whose state is (own, labs, json).
importLabel(st, importData, own, labs, json, failAt) ==
    LET failed(res, st2) ==
            [store |-> st2, labels |-> labs, json |-> json, updates |-> 0,
             result |-> res]
    IN  IF importData.kind = "malformed"
        THEN failed(InvalidJson("SyntaxError"), st)
        ELSE IF importData.kind = "null"
        THEN failed(InvalidJson("TypeError"), st)
        ELSE IF PayloadInvalid(importData) THEN failed(InvalidFormat, st)
        ELSE LET loop == importDocuments(importData.documents,
                             importData.label, own, st, 0, 0, failAt)
                 loaded == loadLabels(loop.store, own, labs, json)
             IN  IF loop.threw # ""
                 THEN failed(InvalidJson(loop.threw), loop.store)
                 ELSE [store |-> loop.store, labels |-> loaded.labels,
                       json |-> loaded.json, updates |-> 1,
                       result |-> Imported(importData.label, loop.count)]

----------------------------------------------------------------------------
(* The record of the handler that ran last: its inputs, what it returned and
   the state it started from. *)

\* No foreign write counted; checked says that the tab's last handler was a check.
NoExt == [checked |-> FALSE, n |-> 0, differed |-> FALSE]
Checked == [NoExt EXCEPT !.checked = TRUE]

\* checkAndReloadLabels reads a labels array from the stored value.
Readable(v) == ~ParseThrows(v) /\ v.kind # "null"

\* What checkAndReloadLabels of the tab would find now: a stored value it can
\* read whose labels, as JSON, are not the last-known ones of the tab.  A value
\* it cannot read (no JSON, or null) is not among these, whoever wrote it: the
\* check throws on it before it compares.
StoredDiffers(t) ==
    /\ documentId[t] # ""
    /\ Readable(store[KeyOf(t)])
    /\ StringifyArray(CurrentLabels(store[KeyOf(t)])) # lastKnownLabelsJson[t]

\* The handlers that change labels: addLabel, removeLabel, the drop listener
\* and importLabel of a tab, and the write of another program.
MutatingOps == {"add", "remove", "drop", "import", "write"}

\* The tabs that ran checkAndReloadLabels after the last handler that changes
\* labels ran in any tab.
CheckedSince(op, t) ==
    IF op \in MutatingOps \cup {"none"} THEN {}
    ELSE IF op \in {"focus", "visible"} THEN last.checkedSince \cup {t}
    ELSE last.checkedSince

\* The step is one of a handler that last records: dragstart and dragend, the
\* only handlers that assign draggedIndex, are not recorded.
RecordedStep == draggedIndex' = draggedIndex

Ran(op, t) ==
    [op |-> op, tab |-> t, updates |-> 0, saved |-> FALSE,
     differs |-> IF t \in Tabs THEN StoredDiffers(t) ELSE FALSE,
     checkedSince |-> CheckedSince(op, t),
     text |-> "", index |-> 0, to |-> 0,
     payload |-> MalformedPayload, result |-> InvalidFormat,
     documents |-> <<>>, order |-> <<>>,
     preLabels |-> IF t \in Tabs THEN labels[t] ELSE <<>>,
     preJson |-> IF t \in Tabs THEN lastKnownLabelsJson[t] ELSE "",
     preExt |-> IF t \in Tabs THEN extWrites[t] ELSE NoExt]


----------------------------------------------------------------------------
(* Text typed into the add dialog. *)

\* The characters String.prototype.trim removes (the WhiteSpace and
\* LineTerminator code points of ECMAScript), of those a string constant of a
\* module can hold: space, tab, line feed, carriage return, form feed, line
\* tabulation (U+000B), no-break space (U+00A0), ogham space mark (U+1680) and
\* the byte order mark (U+FEFF), in this order.  trim removes U+2000..U+200A,
\* U+2028, U+2029, U+202F, U+205F and U+3000 as well, which the lexer of the
\* module language refuses inside a string.
Whitespace ==
    {" ", "\t", "\n", "\r", "\f", "", " ", " ", "﻿"}

RECURSIVE TrimStart(_)
TrimStart(s) ==
    IF Len(s) > 0 /\ CharAt(s, 1) \in Whitespace
    THEN TrimStart(SubSeq(s, 2, Len(s)))
    ELSE s

RECURSIVE TrimEnd(_)
TrimEnd(s) ==
    IF Len(s) > 0 /\ CharAt(s, Len(s)) \in Whitespace
    THEN TrimEnd(SubSeq(s, 1, Len(s) - 1))
    ELSE s

\* A variant of Trim that leaves the whitespace at the end.
TrimStartOnly(s) == TrimStart(s)

\* String.prototype.trim
Trim(s) == TrimEnd(TrimStart(s))

----------------------------------------------------------------------------
(* The handlers of one tab. *)

\* init(): documentId = getDocumentId().
InitSession(t) ==
    /\ documentId[t] = ""
    /\ documentId' = [documentId EXCEPT ![t] = getDocumentId(t)]
    /\ last' = Ran("init", t)
    /\ UNCHANGED <<draggedIndex, store, labels, lastKnownLabelsJson, section, timer,
                   exported, before, extWrites>>

\* A variant of CreateLabelsSection whose load rewrites a legacy array as an
\* object.
CreateLabelsSectionMigrating(t) ==
    /\ documentId[t] # ""
    /\ ~section[t]
    /\ \E r \in {loadLabels(store, documentId[t], labels[t],
                           lastKnownLabelsJson[t])} :
           /\ labels' = [labels EXCEPT ![t] = r.labels]
           /\ lastKnownLabelsJson' = [lastKnownLabelsJson EXCEPT ![t] = r.json]
    /\ store' = [store EXCEPT ![KeyOf(t)] =
                     IF @.kind = "array"
                     THEN ObjectValue(@.labels, "Untitled", Href(t)) ELSE @]
    /\ section' = [section EXCEPT ![t] = TRUE]
    /\ timer' = [timer EXCEPT ![t] = TRUE]
    /\ extWrites' = [extWrites EXCEPT ![t] = NoExt]
    /\ last' = [Ran("section", t) EXCEPT !.updates = 1]
    /\ UNCHANGED <<draggedIndex, documentId, exported, before>>

\* createLabelsSection(): loadLabels, updateLabelsDisplay, the timeout and the
\* two listeners.
CreateLabelsSection(t) ==
    /\ documentId[t] # ""
    /\ ~section[t]
    /\ \E r \in {loadLabels(store, documentId[t], labels[t],
                           lastKnownLabelsJson[t])} :
           /\ labels' = [labels EXCEPT ![t] = r.labels]
           /\ lastKnownLabelsJson' = [lastKnownLabelsJson EXCEPT ![t] = r.json]
    /\ section' = [section EXCEPT ![t] = TRUE]
    /\ timer' = [timer EXCEPT ![t] = TRUE]
    /\ extWrites' = [extWrites EXCEPT ![t] = NoExt]
    /\ last' = [Ran("section", t) EXCEPT !.updates = 1]
    /\ UNCHANGED <<draggedIndex, store, documentId, exported, before>>

\* A handler that changed labels to labs and then calls saveLabels and
\* updateLabelsDisplay.
SaveAndShow(t, labs, shown, ok, ran) ==
    \E r \in {saveLabels(store, documentId[t], labs, lastKnownLabelsJson[t],
                        shown, Href(t), ok)} :
        /\ labels' = [labels EXCEPT ![t] = labs]
        /\ store' = r.store
        /\ lastKnownLabelsJson' = [lastKnownLabelsJson EXCEPT ![t] = r.json]
        /\ last' = [ran EXCEPT !.saved = r.saved, !.updates = 1]
        /\ extWrites' = [extWrites EXCEPT ![t] = NoExt]

\* The timeout of createLabelsSection: saveLabels().
DeferredSave(t, shown, ok) ==
    /\ timer[t]
    /\ timer' = [timer EXCEPT ![t] = FALSE]
    /\ \E r \in {saveLabels(store, documentId[t], labels[t],
                           lastKnownLabelsJson[t], shown, Href(t), ok)} :
           /\ store' = r.store
           /\ lastKnownLabelsJson' = [lastKnownLabelsJson EXCEPT ![t] = r.json]
           /\ last' = [Ran("timer", t) EXCEPT !.saved = r.saved]
    /\ extWrites' = [extWrites EXCEPT ![t] = NoExt]
    /\ UNCHANGED <<draggedIndex, documentId, labels, section, exported, before>>

\* addLabel(labelText)
AddLabel(t, text, shown, ok) ==
    /\ section[t]
    /\ IF text # "" /\ Trim(text) # ""
       THEN /\ Len(labels[t]) < MaxLabels
            /\ SaveAndShow(t, Append(labels[t], Str(Trim(text))), shown, ok,
                           [Ran("add", t) EXCEPT !.text = text])
       ELSE /\ last' = [Ran("add", t) EXCEPT !.text = text]
            /\ UNCHANGED <<store, labels, lastKnownLabelsJson, extWrites>>
    /\ UNCHANGED <<draggedIndex, documentId, section, timer, exported, before>>

\* removeLabel(index)
RemoveLabel(t, index, shown, ok) ==
    /\ section[t]
    /\ SaveAndShow(t, SpliceRemove(labels[t], index), shown, ok,
                   [Ran("remove", t) EXCEPT !.index = index])
    /\ UNCHANGED <<draggedIndex, documentId, section, timer, exported, before>>

\* The dragstart listener of the item at index.
DragStart(t, index) ==
    /\ section[t]
    /\ index \in 0..(Len(labels[t]) - 1)
    /\ draggedIndex' = [draggedIndex EXCEPT ![t] = index]
    /\ UNCHANGED <<store, documentId, labels, lastKnownLabelsJson, section,
                   timer, exported, extWrites, before, last>>

\* The dragend listener of the item dragged, when the browser delivers it.
DragEnd(t) ==
    /\ section[t]
    /\ draggedIndex[t] # NullIndex
    /\ draggedIndex' = [draggedIndex EXCEPT ![t] = NullIndex]
    /\ UNCHANGED <<store, documentId, labels, lastKnownLabelsJson, section,
                   timer, exported, extWrites, before, last>>

\* The drop listener of the item at targetIndex.  draggedIndex is what the
\* last dragstart left, which may be no index of the labels of now.
Drop(t, targetIndex, shown, ok) ==
    /\ section[t]
    /\ targetIndex \in 0..(Len(labels[t]) - 1)
    /\ LET ran == [Ran("drop", t) EXCEPT !.index = draggedIndex[t],
                                         !.to = targetIndex]
       IN  IF draggedIndex[t] # NullIndex /\ targetIndex # draggedIndex[t]
           THEN /\ draggedIndex[t] >= Len(labels[t]) =>
                       Len(labels[t]) < MaxLabels
                /\ SaveAndShow(t,
                       Reorder(labels[t], draggedIndex[t], targetIndex),
                       shown, ok, ran)
           ELSE /\ last' = ran
                /\ UNCHANGED <<store, labels, lastKnownLabelsJson, extWrites>>
    /\ UNCHANGED <<draggedIndex, documentId, section, timer, exported, before>>

\* A listener that calls checkAndReloadLabels().
Recheck(t, op) ==
    /\ \E r \in {checkAndReloadLabels(store, documentId[t], labels[t],
                                     lastKnownLabelsJson[t])} :
           /\ labels' = [labels EXCEPT ![t] = r.labels]
           /\ lastKnownLabelsJson' = [lastKnownLabelsJson EXCEPT ![t] = r.json]
           /\ last' = [Ran(op, t) EXCEPT !.updates = r.updates]
    /\ extWrites' = [extWrites EXCEPT ![t] = Checked]
    /\ UNCHANGED <<draggedIndex, store, documentId, section, timer, exported, before>>

\* The focus listener of the window.
WindowFocus(t) ==
    /\ section[t]
    /\ Recheck(t, "focus")

\* The visibilitychange listener of the document.
VisibilityChange(t, visibilityState) ==
    /\ section[t]
    /\ IF visibilityState = "visible"
       THEN Recheck(t, "visible")
       ELSE /\ last' = Ran("hidden", t)
            /\ UNCHANGED <<store, documentId, labels, lastKnownLabelsJson,
                           draggedIndex, section, timer, exported, before,
                           extWrites>>

\* The import button of the dialog: importLabel(textArea.value).
ImportLabel(t, importData, failAt) ==
    /\ section[t]
    /\ \E r \in {importLabel(store, importData, documentId[t], labels[t],
                            lastKnownLabelsJson[t], failAt)} :
           /\ \A k \in AllKeys : Len(r.store[k].labels) <= MaxLabels
           /\ store' = r.store
           /\ labels' = [labels EXCEPT ![t] = r.labels]
           /\ lastKnownLabelsJson' = [lastKnownLabelsJson EXCEPT ![t] = r.json]
           /\ last' = [Ran("import", t) EXCEPT !.payload = importData,
                                               !.result = r.result,
                                               !.updates = r.updates]
    /\ extWrites' = [extWrites EXCEPT ![t] = NoExt]
    /\ before' = store
    /\ UNCHANGED <<draggedIndex, documentId, section, timer, exported>>

\* The sequences without repetition of all elements of a set of keys.
RECURSIVE Orders(_)
Orders(keys) ==
    IF keys = {} THEN {<<>>}
    ELSE UNION {{<<k>> \o o : o \in Orders(keys \ {k})} : k \in keys}

\* The keys localStorage enumerates.
PresentKeys(st) == {k \in AllKeys : st[k].kind # "absent"}

\* The export button of the label at index: showExportDialog(label).
ExportLabel(t, index, order) ==
    /\ section[t]
    /\ index \in 1..Len(labels[t])
    /\ order \in Orders(PresentKeys(store))
    /\ exported' = [payload |-> exportLabel(store, order, labels[t][index],
                                            documentId[t]),
                    from |-> store]
    /\ last' = [Ran("export", t) EXCEPT !.text = labels[t][index]]
    /\ UNCHANGED <<draggedIndex, store, documentId, labels, lastKnownLabelsJson, section,
                   timer, extWrites, before>>

\* populateDocumentList(container, labelName) for the label at index, as the
\* expand button and updateLabelsDisplay call it.
PopulateDocumentList(t, index, order) ==
    /\ section[t]
    /\ index \in 1..Len(labels[t])
    /\ order \in Orders(PresentKeys(store))
    /\ last' = [Ran("expand", t) EXCEPT
                   !.text = labels[t][index],
                   !.order = order,
                   !.documents = findDocumentsWithLabel(store, order,
                                     labels[t][index], documentId[t])]
    /\ UNCHANGED <<draggedIndex, store, documentId, labels, lastKnownLabelsJson, section,
                   timer, exported, before, extWrites>>

----------------------------------------------------------------------------
(* Another writer of the same origin's localStorage: a tab outside the model, or
   an earlier version of the script. *)

ExternalWrite(key, value) ==
    /\ key \in AllKeys
    /\ value # store[key]
    /\ \A t \in Tabs : KeyOf(t) = key => extWrites[t].n < MaxExtWrites
    /\ store' = [store EXCEPT ![key] = value]
    /\ extWrites' =
           [t \in Tabs |->
               IF KeyOf(t) = key
               THEN [extWrites[t] EXCEPT
                        !.n = @ + 1,
                        !.differed = @ \/ (Readable(value) /\
                            StringifyArray(CurrentLabels(value)) #
                                lastKnownLabelsJson[t])]
               ELSE extWrites[t]]
    /\ last' = Ran("write", 0)
    /\ UNCHANGED <<draggedIndex, documentId, labels, lastKnownLabelsJson, section, timer,
                   exported, before>>

----------------------------------------------------------------------------
(* The inputs the specifications draw from. *)

LabelA == Str("a")
LabelB == Str("b")

\* The labels arrays of at most MaxLabels of the two labels.
RECURSIVE SeqsUpTo(_, _)
SeqsUpTo(S, n) ==
    IF n = 0 THEN {<<>>}
    ELSE LET shorter == SeqsUpTo(S, n - 1)
         IN  shorter \cup {Append(q, x) : q \in shorter, x \in S}

LabelSeqs == SeqsUpTo({LabelA, LabelB}, MaxLabels)

\* Values a key of document d may hold when a tab opens: nothing, text that is
\* no JSON, JSON that is no record, the legacy array, and objects as saveLabels
\* and importLabel write them.
StoredValues(d) ==
    {AbsentValue, MalformedValue, NullValue, NumberValue,
     ArrayValue(<<LabelB>>),
     ObjectValue(<<LabelB, LabelA>>, "Report", DefaultUrl(d) \o "?tab=t.0"),
     BareObjectValue("Notes", Undefined)}

\* What another program stores under a key that lacks the prefix.
ForeignValue == ArrayValue(<<LabelA>>)

\* The entries of payload.documents.
EntryA == [title |-> "Report", url |-> DefaultUrl("dA")]
EntryB == [title |-> Undefined, url |-> DefaultUrl("dB") \o "#heading=h.1"]
EntryNoUrl == [title |-> "Notes", url |-> Undefined]
EntryElsewhere == [title |-> "Notes", url |-> ElsewhereUrl]

\* The values of payload.documents: no entry, one document, both documents in
\* either order, one document twice, and entries to skip before, between and
\* after the entries of documents.
DocLists ==
    {<<>>, <<EntryA>>, <<EntryB>>, <<EntryA, EntryB>>, <<EntryB, EntryA>>,
     <<EntryA, EntryA>>, <<EntryNoUrl, EntryA>>, <<EntryB, EntryElsewhere>>,
     <<EntryA, EntryNoUrl, EntryB>>, <<EntryElsewhere, EntryB, EntryA>>}

\* The texts pasted into the import dialog: text that is no JSON, the JSON
\* null, objects without a documents array or without a usable label, and
\* objects that pass the validation.
Payloads ==
    {MalformedPayload, NullPayload, NoDocsPayload(LabelA)}
    \cup {ObjectPayload(LabelA, docs) : docs \in DocLists}
    \cup {ObjectPayload(l, <<EntryA, EntryB>>) :
             l \in {Undefined, Str(""), "7"}}

\* setItem is called at most once per key by one importLabel: the call that
\* throws is one of the first Cardinality(DocIds), or none (0).
FailPoints == 0..Cardinality(DocIds)

\* The texts typed: empty, white space only (space, tab, line feed, carriage
\* return), a, and b with a form feed and a line tabulation before it and a
\* line feed and a space after it.
Texts == {"", " \t\n\r", "a", "\fb\n "}

----------------------------------------------------------------------------
(* Specifications. *)

TabsStart ==
    /\ documentId = [t \in Tabs |-> ""]
    /\ labels = [t \in Tabs |-> <<>>]
    /\ lastKnownLabelsJson = [t \in Tabs |-> ""]
    /\ draggedIndex = [t \in Tabs |-> NullIndex]
    /\ section = [t \in Tabs |-> FALSE]
    /\ timer = [t \in Tabs |-> FALSE]
    /\ extWrites = [t \in Tabs |-> NoExt]
    /\ exported = [payload |-> MalformedPayload, from |-> store]
    /\ before = store
    /\ last = Ran("none", 0)

\* One tab that imports into a substrate of two documents, any number of times.
InitImport ==
    /\ store \in [AllKeys -> UNION {StoredValues(d) : d \in DocIds}
                                \cup {ForeignValue}]
    /\ store[ForeignKey] = ForeignValue
    /\ \A d \in DocIds : store[getStorageKey(d, "")] \in StoredValues(d)
    /\ TabsStart

NextImport ==
    \/ InitSession(1)
    \/ CreateLabelsSection(1)
    \/ \E p \in Payloads, failAt \in FailPoints : ImportLabel(1, p, failAt)

SpecImport == InitImport /\ [][NextImport]_vars

----------------------------------------------------------------------------
(* What the claims about importLabel speak of. *)

\* The label sequence a stored value holds: the array itself in the legacy
\* form, the labels property of an object, and none in any other case.
StoredLabels(v) ==
    IF v.kind \in {"array", "object"} THEN LabelsOrEmpty(v) ELSE <<>>

IsPrefix(a, b) == Len(a) <= Len(b) /\ SubSeq(b, 1, Len(a)) = a

\* The value is a JSON string (its text starts with a quote).
IsJsonString(v) == v # Undefined /\ CharAt(v, 1) = "\""

\* A payload with a non-empty string as label and an array as documents.
ValidPayload(p) ==
    /\ p.kind = "object"
    /\ p.docsIsArray
    /\ IsJsonString(p.label)
    /\ p.label # Str("")

\* The entry has a url that names a document.
Recognized(doc) ==
    doc.url # Undefined /\ doc.url # "" /\ DocIdOfUrl(doc.url) # ""

EntryKey(doc) == getStorageKey(DocIdOfUrl(doc.url), "")

\* The keys of the documents a payload names by a recognized url.
TargetKeys(p) ==
    {EntryKey(p.documents[i]) :
        i \in {j \in 1..Len(p.documents) : Recognized(p.documents[j])}}

ImportRan == last.op = "import"

NoWriteFailed == last.result.error # "QuotaExceededError"

\* C4 (as claimed, for calls in which no localStorage write fails): when
\* importLabel is called twice in a row with the same valid payload, the second
\* call reports an imported count of 0 and leaves every key unchanged.
C4_ImportIdempotent ==
    [][(/\ last.op = "import" /\ last'.op = "import"
        /\ last'.payload = last.payload
        /\ ValidPayload(last.payload)
        /\ last.result.error # "QuotaExceededError"
        /\ last'.result.error # "QuotaExceededError")
       => (last'.result.count = 0 /\ store' = store)]_vars

\* C5: an import only ever appends its label: under every key the labels stored
\* before are a prefix of the labels stored after, which are the same when the
\* label was an element and differ at most by the label appended once; and
\* after a successful import every document the payload names by a recognized
\* url that lacked the label has it appended once.
C5_ImportAdditive ==
    ImportRan =>
        \A k \in AllKeys :
            LET pre == StoredLabels(before[k])
                post == StoredLabels(store[k])
                labelName == last.payload.label
            IN  /\ IsPrefix(pre, post)
                /\ Includes(pre, labelName) => post = pre
                /\ post # pre => post = Append(pre, labelName)
                /\ (/\ last.result.success
                    /\ k \in TargetKeys(last.payload)
                    /\ ~Includes(pre, labelName)) => post = Append(pre, labelName)

\* C5 witness: a successful import appended the label after the label b of one
\* document and left alone a named document that already carried it.
C5_Witness ==
    /\ ImportRan
    /\ last.result.success
    /\ \E k1, k2 \in TargetKeys(last.payload) :
          /\ StoredLabels(before[k1]) = <<LabelB>>
          /\ StoredLabels(store[k1]) = <<LabelB, LabelA>>
          /\ Includes(StoredLabels(before[k2]), LabelA)
          /\ store[k2] = before[k2]

\* C6 (as claimed, for imports in which no localStorage write fails): an import
\* that returns success = false leaves the substrate as it was.
C6_FailedImportNoEffect ==
    (ImportRan /\ ~last.result.success /\ NoWriteFailed)
        => store = before

\* An entry importLabel cannot process: no url, a url that names no document,
\* or a stored value that is no usable record.
FailingEntry(st, doc) ==
    \/ ~Recognized(doc)
    \/ st[EntryKey(doc)].kind \in {"malformed", "null", "number"}

\* The payload without the entries that cannot be processed.
WithoutFailing(st, p) ==
    [p EXCEPT !.documents = SelectSeq(p.documents,
                                LAMBDA doc : ~FailingEntry(st, doc))]

\* C7 (as claimed, for imports in which no localStorage write fails): an entry
\* that cannot be processed does not stop the others: the import of a valid
\* payload returns success = true, and every key but those of the failing
\* entries holds what the import of the payload without them leaves there.
C7_EntryFailuresIsolated ==
    (ImportRan /\ ValidPayload(last.payload) /\ NoWriteFailed) =>
        /\ last.result.success
        /\ \A k \in AllKeys :
              (\A i \in 1..Len(last.payload.documents) :
                  LET doc == last.payload.documents[i]
                  IN  (Recognized(doc) /\ EntryKey(doc) = k)
                          => ~FailingEntry(before, doc))
              => store[k] =
                     importLabel(before,
                                 WithoutFailing(before, last.payload),
                                 documentId[last.tab], last.preLabels,
                                 last.preJson, 0).store[k]

\* C8 (as claimed, for imports that raise no exception): a payload whose label
\* is missing, empty or no string, or whose documents is no array, and a text
\* that is no JSON, make importLabel return success = false and write nothing.
C8_ImportValidation ==
    (ImportRan /\ ~ValidPayload(last.payload)
        /\ last.result.error \in {"", "SyntaxError"})
        => (~last.result.success /\ store = before)

\* C9: the count in the message of a successful import is the number of
\* documents the payload names by a recognized url whose record lacked the
\* label, which are the keys the import changed.
C9_ImportedCount ==
    (ImportRan /\ last.result.success) =>
        /\ last.result.count =
               Cardinality({k \in TargetKeys(last.payload) :
                   ~Includes(StoredLabels(before[k]),
                             last.payload.label)})
        /\ last.result.count =
               Cardinality({k \in AllKeys : store[k] # before[k]})

\* C9 witness: a successful import of three entries, one without url, one of a
\* document that carried the label and one of a document that did not, reports
\* a count of 1.
C9_Witness ==
    /\ ImportRan
    /\ last.result.success
    /\ last.payload.documents = <<EntryA, EntryNoUrl, EntryB>>
    /\ last.result.count = 1
    /\ \E k \in TargetKeys(last.payload) :
          Includes(StoredLabels(before[k]), last.payload.label)

----------------------------------------------------------------------------
(* One tab on document dA and a foreign writer of its key. *)

\* What the foreign writer stores: text that is no JSON, JSON that is no
\* record, an object without labels, legacy arrays and an object.
WriterValues ==
    {MalformedValue, NullValue, NumberValue, BareObjectValue("Notes", Undefined),
     ArrayValue(<<LabelB>>), ArrayValue(<<LabelA, LabelB>>),
     ArrayValue(<<LabelB, LabelA>>),
     ObjectValue(<<LabelA>>, "Notes", DefaultUrl("dA"))}

\* One tab on document dA and a foreign writer of its record.
InitWatch ==
    /\ store \in [AllKeys -> StoredValues("dA") \cup {ForeignValue}]
    /\ store[ForeignKey] = ForeignValue
    /\ store[getStorageKey("dB", "")] = AbsentValue
    /\ store[getStorageKey("dA", "")] \in StoredValues("dA")
    /\ TabsStart

NextWatch ==
    \/ InitSession(1)
    \/ CreateLabelsSection(1)
    \/ \E ok \in BOOLEAN : DeferredSave(1, "Report", ok)
    \/ \E text \in {"", "a"}, ok \in BOOLEAN : AddLabel(1, text, "Report", ok)
    \/ \E ok \in BOOLEAN : RemoveLabel(1, 0, "Report", ok)
    \/ WindowFocus(1)
    \/ \E visibilityState \in {"visible", "hidden"} :
           VisibilityChange(1, visibilityState)
    \/ \E value \in WriterValues : ExternalWrite(getStorageKey("dA", ""), value)

SpecWatch == InitWatch /\ [][NextWatch]_vars

CheckRan == last.op \in {"focus", "visible"}

\* C1: when a focus or visibilitychange listener runs checkAndReloadLabels on a
\* stored value it can read, updateLabelsDisplay is called once if the labels
\* stored differ in value or order from the last-known JSON and not at all if
\* they do not; when it is called, labels and lastKnownLabelsJson are the stored
\* labels, and when it is not, both are what they were.
C1_CheckFiresIffChanged ==
    (CheckRan /\ Readable(store[KeyOf(last.tab)])) =>
        LET t == last.tab
            current == CurrentLabels(store[KeyOf(t)])
        IN  /\ last.updates \in {0, 1}
            /\ last.updates = 1 <=> StringifyArray(current) # last.preJson
            /\ last.updates = 1 =>
                   /\ labels[t] = current
                   /\ lastKnownLabelsJson[t] = StringifyArray(current)
            /\ last.updates = 0 =>
                   /\ labels[t] = last.preLabels
                   /\ lastKnownLabelsJson[t] = last.preJson

\* C1 witness: a check found the two labels of the tab stored in the other
\* order and reloaded them.
C1_Witness ==
    /\ CheckRan
    /\ last.updates = 1
    /\ last.preLabels = <<LabelA, LabelB>>
    /\ last.preJson = StringifyArray(<<LabelA, LabelB>>)
    /\ labels[last.tab] = <<LabelB, LabelA>>
    /\ store[KeyOf(last.tab)].kind = "array"

\* C2: a check that follows a check with nothing but foreign writes of the
\* tab's record in between calls updateLabelsDisplay at most once, and not at
\* all when the labels the last write left are the last-known ones.
C2_LevelTriggered ==
    (CheckRan /\ last.preExt.checked /\ last.preExt.n >= 1) =>
        /\ last.updates <= 1
        /\ (/\ Readable(store[KeyOf(last.tab)])
            /\ StringifyArray(CurrentLabels(store[KeyOf(last.tab)]))
                   = last.preJson)
           => last.updates = 0

\* C2 witness: between two checks the record was written twice, to other labels
\* and back, and the second check called nothing.
C2_Witness ==
    /\ CheckRan
    /\ last.preExt.checked
    /\ last.preExt.n = 2
    /\ last.preExt.differed
    /\ last.updates = 0
    /\ Readable(store[KeyOf(last.tab)])
    /\ labels[last.tab] = CurrentLabels(store[KeyOf(last.tab)])
    /\ labels[last.tab] # <<>>

----------------------------------------------------------------------------
(* Two tabs on document dA. *)

InitSessions ==
    /\ store \in [AllKeys -> {AbsentValue, ForeignValue}]
    /\ store[ForeignKey] = ForeignValue
    /\ \A d \in DocIds : store[getStorageKey(d, "")] = AbsentValue
    /\ TabsStart

\* What the user of a tab types into its add dialog.
TextOf(t) == IF t = 1 THEN "a" ELSE "b"

NextSessions ==
    \/ \E t \in Tabs :
        \/ InitSession(t)
        \/ CreateLabelsSection(t)
        \/ \E ok \in BOOLEAN : AddLabel(t, TextOf(t), "Report", ok)
        \/ DeferredSave(t, "Report", TRUE)
        \/ \E index \in 0..(MaxLabels - 1) : RemoveLabel(t, index, "Report", TRUE)
        \/ WindowFocus(t)
        \/ VisibilityChange(t, "visible")
    \/ DragStart(1, MaxLabels - 1)
    \/ DragEnd(1)
    \/ Drop(1, 0, "Report", TRUE)

SpecSessions == InitSessions /\ [][NextSessions]_vars

\* C3: right after addLabel, removeLabel, a drop or the deferred save of a tab
\* has stored its record, the labels stored for the document are the labels of
\* that tab, as JSON holds them (null for an element that is undefined).
C3_LastPersistWins ==
    (last.op \in {"add", "remove", "drop", "timer"} /\ last.saved) =>
        StoredLabels(store[KeyOf(last.tab)]) = JsonArray(labels[last.tab])

\* C3 witness: a tab stored its labels over a record that held labels it had
\* not read, and a label of the other tab is stored no more.
C3_Witness ==
    /\ last.op \in {"add", "remove", "drop"}
    /\ last.saved
    /\ last.differs
    /\ StoredLabels(store[KeyOf(last.tab)]) = labels[last.tab]
    /\ \E t \in Tabs \ {last.tab} :
          /\ documentId[t] = documentId[last.tab]
          /\ lastKnownLabelsJson[t] = StringifyArray(labels[t])
          /\ \E i \in 1..Len(labels[t]) :
                ~Includes(labels[last.tab], labels[t][i])

----------------------------------------------------------------------------
(* One tab that exports a label and imports what it exported, into the same
   localStorage or after other writes to it. *)

ExportValues ==
    {AbsentValue, NullValue, ArrayValue(<<LabelB>>),
     ObjectValue(<<LabelB, LabelA>>, "Report", DefaultUrl("dB") \o "?tab=t.0")}

InitExport ==
    /\ store \in [AllKeys -> ExportValues \cup StoredValues("dA")
                                \cup {ForeignValue}]
    /\ store[ForeignKey] = ForeignValue
    /\ store[getStorageKey("dA", "")] \in
           {v \in StoredValues("dA") : v.kind \in {"array", "object"}}
    /\ store[getStorageKey("dB", "")] \in ExportValues
    /\ TabsStart

NextExport ==
    \/ InitSession(1)
    \/ CreateLabelsSection(1)
    \/ \E index \in 1..MaxLabels, order \in Orders(PresentKeys(store)) :
           ExportLabel(1, index, order)
    \/ \E value \in ExportValues : ExternalWrite(getStorageKey("dB", ""), value)
    \/ ImportLabel(1, exported.payload, 0)

SpecExport == InitExport /\ [][NextExport]_vars

\* The entries of a payload whose record in st does not carry the label.
EntriesLacking(st, p) ==
    {i \in 1..Len(p.documents) :
        ~Includes(StoredLabels(st[EntryKey(p.documents[i])]), p.label)}

\* C10 (as claimed): the import of what exportLabel returned reports as count
\* the number of exported documents whose record does not carry the label;
\* imported into the localStorage it was exported from, it reports 0 and leaves
\* every key unchanged.
C10_ExportThenImport ==
    (ImportRan /\ exported.payload.kind = "object"
        /\ last.payload = exported.payload) =>
        /\ last.result.count =
               Cardinality(EntriesLacking(before, last.payload))
        /\ before = exported.from =>
               (last.result.count = 0 /\ store = before)

----------------------------------------------------------------------------
(* One tab on document dA that lists and exports the documents of its labels,
   over every stored value of the two documents. *)

\* A label that holds the label a as a part.
LabelAB == Str("ab")

\* What the key of document d may hold when the scan runs.
ScanValues(d) == StoredValues(d) \cup {ArrayValue(<<LabelAB, LabelB>>)}

InitScan ==
    /\ store \in [AllKeys -> UNION {ScanValues(d) : d \in DocIds}
                                \cup {ForeignValue}]
    /\ store[ForeignKey] = ForeignValue
    /\ \A d \in DocIds : store[getStorageKey(d, "")] \in ScanValues(d)
    /\ TabsStart

NextScan ==
    \/ InitSession(1)
    \/ CreateLabelsSection(1)
    \/ \E ok \in BOOLEAN : AddLabel(1, "a", "Report", ok)
    \/ WindowFocus(1)
    \/ \E index \in 1..MaxLabels, order \in Orders(PresentKeys(store)) :
           PopulateDocumentList(1, index, order)
    \/ \E index \in 1..MaxLabels, order \in Orders(PresentKeys(store)) :
           ExportLabel(1, index, order)

SpecScan == InitScan /\ [][NextScan]_vars

ScanRan == last.op = "expand"

\* The entries of a scan that name the document of key k.
EntriesOf(documents, k) ==
    {i \in 1..Len(documents) : documents[i].id = StripPrefix(k)}

\* The stored value decodes to a record with labelName among its labels.
Carries(v, labelName) ==
    Readable(v) /\ v.kind # "absent" /\ Includes(CurrentLabels(v), labelName)

\* C11: findDocumentsWithLabel returns one entry for every key with the prefix
\* whose stored record has the label as an element, no entry for any other key,
\* and isCurrent is true in exactly the entries of the tab's own document.
C11_FindExact ==
    ScanRan =>
        /\ \A k \in AllKeys :
              Cardinality(EntriesOf(last.documents, k)) =
                  IF StartsWithPrefix(k) /\ Carries(store[k], last.text)
                  THEN 1 ELSE 0
        /\ \A i \in 1..Len(last.documents) :
              /\ \E k \in AllKeys : i \in EntriesOf(last.documents, k)
              /\ last.documents[i].isCurrent
                     <=> last.documents[i].id = documentId[last.tab]

\* C11 witness: the scan for label a found the tab's document and no other,
\* with a second document that holds the label ab and a key without the prefix
\* that holds the label a.
C11_Witness ==
    /\ ScanRan
    /\ last.text = LabelA
    /\ Len(last.documents) = 1
    /\ last.documents[1].isCurrent
    /\ store[getStorageKey("dB", "")] = ArrayValue(<<LabelAB, LabelB>>)
    /\ Includes(CurrentLabels(store[ForeignKey]), LabelA)

\* The keys with the prefix whose stored value the scan cannot decode.
BadKeys(st) ==
    {k \in AllKeys : StartsWithPrefix(k) /\ st[k].kind \in {"malformed", "null"}}

\* localStorage without the keys in bad, and an enumeration of it.
WithoutKeys(st, bad) == [k \in AllKeys |-> IF k \in bad THEN AbsentValue ELSE st[k]]
OrderWithout(order, bad) == SelectSeq(order, LAMBDA k : k \notin bad)

\* C12: a stored value that cannot be decoded does not end the scan: what
\* findDocumentsWithLabel returns is what it returns when the keys of such
\* values are not in localStorage.
C12_ScanIsolatesBadRecords ==
    ScanRan =>
        last.documents =
            findDocumentsWithLabel(
                WithoutKeys(store, BadKeys(store)),
                OrderWithout(last.order, BadKeys(store)),
                last.text, documentId[last.tab])

\* C12 witness: the scan met a value that is no JSON first and returned the
\* entry of the key that came after it.
C12_Witness ==
    /\ ScanRan
    /\ Len(last.order) >= 2
    /\ last.order[1] \in BadKeys(store)
    /\ store[last.order[1]].kind = "malformed"
    /\ \E i \in 2..Len(last.order) :
          EntriesOf(last.documents, last.order[i]) # {}

----------------------------------------------------------------------------
(* One tab on document dA whose user adds, removes and drags labels, with no
   other writer. *)

LabelC == Str("c")

\* What the key of dA holds when the tab opens: nothing, text that is no JSON,
\* a legacy array of three labels and an object saveLabels wrote.
EditValues ==
    {AbsentValue, MalformedValue,
     ArrayValue(<<LabelA, LabelB, LabelC>>),
     ObjectValue(<<LabelA>>, "Report", Href(1))}

\* The longest labels array of the tab.
EditLen == Max(MaxLabels, 3)

InitEdit ==
    /\ store \in [AllKeys -> EditValues \cup {ForeignValue}]
    /\ store[ForeignKey] = ForeignValue
    /\ store[getStorageKey("dB", "")] = AbsentValue
    /\ store[getStorageKey("dA", "")] \in EditValues
    /\ TabsStart

NextEdit ==
    \/ InitSession(1)
    \/ CreateLabelsSection(1)
    \/ \E shown \in ShownTitles, ok \in BOOLEAN : DeferredSave(1, shown, ok)
    \/ \E text \in Texts, ok \in BOOLEAN : AddLabel(1, text, "Report", ok)
    \/ \E index \in -1..EditLen, ok \in BOOLEAN :
           RemoveLabel(1, index, "Report", ok)
    \/ \E index \in 0..(EditLen - 1) : DragStart(1, index)
    \/ DragEnd(1)
    \/ \E targetIndex \in 0..(EditLen - 1), ok \in BOOLEAN :
           Drop(1, targetIndex, "Report", ok)

SpecEdit == InitEdit /\ [][NextEdit]_vars

\* The sequence without its element at the 0-based position index.
Without(seq, index) ==
    SubSeq(seq, 1, index) \o SubSeq(seq, index + 2, Len(seq))

InRange(seq, index) == index \in 0..(Len(seq) - 1)

\* No element of the array is undefined or null.
AllStrings(seq) == \A i \in 1..Len(seq) : IsJsonString(seq[i])

\* C13: after addLabel has stored, the labels stored are the labels of the tab
\* before it with the trimmed text at the end; after removeLabel with an index
\* in range has stored, they are the labels before it without that position;
\* in both cases they are the labels of the tab.  This is for labels that are
\* all strings: only a drop puts another value (undefined) among them.
C13_OrderPreserved ==
    /\ (last.op = "add" /\ last.saved /\ AllStrings(last.preLabels)) =>
           /\ labels[last.tab] = Append(last.preLabels, Str(Trim(last.text)))
           /\ StoredLabels(store[KeyOf(last.tab)]) = labels[last.tab]
    /\ (last.op = "remove" /\ last.saved /\ AllStrings(last.preLabels)
            /\ InRange(last.preLabels, last.index)) =>
           /\ labels[last.tab] = Without(last.preLabels, last.index)
           /\ StoredLabels(store[KeyOf(last.tab)]) = labels[last.tab]

\* C13 witness: the label a was added after the first of the labels a, b was
\* removed, and b, a is stored.
C13_Witness ==
    /\ last.op = "add"
    /\ last.saved
    /\ last.preLabels = <<LabelB>>
    /\ StoredLabels(store[KeyOf(last.tab)]) = <<LabelB, LabelA>>

\* C14: a drop that moves the label at i to j, both indices of the array,
\* followed by the drop that moves the label at j to i, both stored, leaves the
\* tab with the labels it had before the first and localStorage with their
\* JSON.
C14_ReorderInvertible ==
    [][(/\ last.op = "drop" /\ last'.op = "drop"
        /\ last'.tab = last.tab
        /\ InRange(last.preLabels, last.index)
        /\ InRange(last.preLabels, last.to)
        /\ last.index # last.to
        /\ last'.index = last.to /\ last'.to = last.index
        /\ last.saved /\ last'.saved)
       => /\ labels'[last.tab] = last.preLabels
          /\ StoredLabels(store'[KeyOf(last.tab)]) =
                 JsonArray(last.preLabels)]_vars

\* C14 witness: of three labels the last was moved to the front, which gave
\* back a, b, c in the tab and in localStorage.
C14_Witness ==
    /\ last.op = "drop"
    /\ last.saved
    /\ last.index = 2 /\ last.to = 0
    /\ last.preLabels = <<LabelB, LabelC, LabelA>>
    /\ labels[last.tab] = <<LabelA, LabelB, LabelC>>
    /\ store[KeyOf(last.tab)].kind = "object"
    /\ StoredLabels(store[KeyOf(last.tab)]) = <<LabelA, LabelB, LabelC>>

\* C20: a drop with two different indices of the array takes the label out and
\* puts it in at the target position: it is at that position afterwards, the
\* other labels are in the order they were in, the length is the same, and
\* when the save succeeded localStorage holds the JSON of the new array; a
\* drop on the item itself changes neither the labels nor localStorage.
C20_ReorderIsMove ==
    [][(/\ RecordedStep
        /\ last'.op = "drop"
        /\ InRange(labels[last'.tab], last'.index)) =>
          LET t == last'.tab
              from == last'.index
              to == last'.to
          IN  IF from # to
              THEN /\ Len(labels'[t]) = Len(labels[t])
                   /\ labels'[t][to + 1] = labels[t][from + 1]
                   /\ Without(labels'[t], to) = Without(labels[t], from)
                   /\ last'.saved =>
                          StoredLabels(store'[KeyOf(t)]) =
                              JsonArray(labels'[t])
              ELSE /\ labels'[t] = labels[t]
                   /\ store' = store]_vars

\* C20 witness: the first of three labels was dropped on the last, the two
\* others moved up and the new array was stored.
C20_Witness ==
    /\ last.op = "drop"
    /\ last.saved
    /\ last.index = 0 /\ last.to = 2
    /\ last.preLabels = <<LabelA, LabelB, LabelC>>
    /\ labels[last.tab] = <<LabelB, LabelC, LabelA>>
    /\ StoredLabels(store[KeyOf(last.tab)]) = <<LabelB, LabelC, LabelA>>

\* C15 (as claimed): removeLabel with an index out of range stores nothing and
\* changes neither the labels of the tab nor localStorage; with an index in
\* range it removes that position, and stores the array when the save succeeds.
C15_RemoveChecksRange ==
    [][(RecordedStep /\ last'.op = "remove") =>
          LET t == last'.tab
              index == last'.index
          IN  IF InRange(labels[t], index)
              THEN /\ labels'[t] = Without(labels[t], index)
                   /\ last'.saved =>
                          StoredLabels(store'[KeyOf(t)]) =
                              JsonArray(labels'[t])
              ELSE /\ ~last'.saved
                   /\ labels'[t] = labels[t]
                   /\ store' = store]_vars

\* The text is empty or whitespace only.
IsBlank(text) == \A i \in 1..Len(text) : CharAt(text, i) \in Whitespace

\* r is the text without the whitespace around it.
IsTrimmedOf(r, text) ==
    /\ Len(r) > 0
    /\ CharAt(r, 1) \notin Whitespace
    /\ CharAt(r, Len(r)) \notin Whitespace
    /\ \E a \in 0..(Len(text) - Len(r)) :
          /\ SubSeq(text, a + 1, a + Len(r)) = r
          /\ IsBlank(SubSeq(text, 1, a))
          /\ IsBlank(SubSeq(text, a + Len(r) + 1, Len(text)))

\* C16: addLabel with an empty or whitespace-only text changes neither the
\* labels of the tab nor localStorage; with any other text it appends the text
\* without the whitespace around it, whether or not the tab has that label
\* already, and when the save succeeded localStorage holds the new array.
C16_AddLabel ==
    [][(RecordedStep /\ last'.op = "add") =>
          LET t == last'.tab
              text == last'.text
          IN  IF IsBlank(text)
              THEN /\ labels'[t] = labels[t]
                   /\ store' = store
                   /\ ~last'.saved
              ELSE /\ Len(labels'[t]) = Len(labels[t]) + 1
                   /\ SubSeq(labels'[t], 1, Len(labels[t])) = labels[t]
                   /\ \E r \in {"\fb\n ", "b\n", "b\n ", "b", "a", " ",
                                "\n"} :
                         /\ IsTrimmedOf(r, text)
                         /\ labels'[t][Len(labels'[t])] = Str(r)
                   /\ last'.saved =>
                          StoredLabels(store'[KeyOf(t)]) =
                              JsonArray(labels'[t])]_vars

\* C16 witness: the text of a form feed, a line tabulation, b, a line feed
\* and a space was added in a tab
\* whose only label was b, and b, b is stored.
C16_Witness ==
    /\ last.op = "add"
    /\ last.saved
    /\ last.text = "\fb\n "
    /\ last.preLabels = <<LabelB>>
    /\ labels[last.tab] = <<LabelB, LabelB>>
    /\ StoredLabels(store[KeyOf(last.tab)]) = <<LabelB, LabelB>>

\* The handlers that only read localStorage: the load of createLabelsSection,
\* the two listeners that check, the list of documents and the export.
ReadOps == {"section", "focus", "visible", "expand", "export"}

\* C17: loadLabels, checkAndReloadLabels, findDocumentsWithLabel and exportLabel
\* leave the value of every key as it is.
C17_ReadsNeverWrite ==
    [][last'.op \in ReadOps => store' = store]_vars

\* C17 witness: a tab that loaded a legacy array has exported a label while a
\* second key held text that is no JSON; localStorage is what the export found.
C17_Witness ==
    /\ last.op = "export"
    /\ section[last.tab]
    /\ store[KeyOf(last.tab)].kind = "array"
    /\ \E k \in AllKeys : store[k].kind = "malformed"
    /\ exported.from = store
    /\ exported.payload.kind = "object"
    /\ Len(exported.payload.documents) = 1

\* The handlers that call saveLabels.
SaveOps == {"add", "remove", "drop", "timer"}

\* C18: when a tab has stored its labels, all of them strings, and the next
\* handler that reads or writes is the load of a tab on the same document,
\* that tab has the same labels in the same order.
C18_PersistReload ==
    [][(/\ last.op \in SaveOps /\ last.saved
        /\ AllStrings(labels[last.tab])
        /\ last'.op = "section"
        /\ documentId'[last'.tab] = documentId[last.tab])
       => labels'[last'.tab] = labels[last.tab]]_vars

\* C18 witness: the second tab has loaded the labels a, a the first tab stored.
C18_Witness ==
    /\ last.op = "section"
    /\ last.tab = 2
    /\ documentId[2] = documentId[1]
    /\ store[KeyOf(1)].kind = "object"
    /\ StoredLabels(store[KeyOf(1)]) = <<LabelA, LabelA>>
    /\ labels[1] = <<LabelA, LabelA>>
    /\ labels[2] = <<LabelA, LabelA>>

----------------------------------------------------------------------------
(* One tab on document dA over records an earlier version of the script left
   as bare arrays, which that version still writes. *)

LegacyValues ==
    {ArrayValue(<<LabelA>>), ArrayValue(<<LabelB>>),
     ArrayValue(<<LabelB, LabelA>>)}

LegacyPayloads ==
    {ObjectPayload(LabelA, <<EntryA, EntryB>>),
     ObjectPayload(LabelA, <<EntryB>>)}

InitLegacy ==
    /\ store \in [AllKeys -> LegacyValues \cup {AbsentValue, ForeignValue}]
    /\ store[ForeignKey] = ForeignValue
    /\ \A d \in DocIds :
          store[getStorageKey(d, "")] \in LegacyValues \cup {AbsentValue}
    /\ TabsStart

NextLegacy ==
    \/ InitSession(1)
    \/ CreateLabelsSection(1)
    \/ WindowFocus(1)
    \/ \E value \in LegacyValues : ExternalWrite(getStorageKey("dA", ""), value)
    \/ \E index \in 1..MaxLabels, order \in Orders(PresentKeys(store)) :
           PopulateDocumentList(1, index, order)
    \/ \E p \in LegacyPayloads : ImportLabel(1, p, 0)

SpecLegacy == InitLegacy /\ [][NextLegacy]_vars

IsLegacy(v) == v.kind = "array"

\* What the load and the check of a tab leave when its record is a bare array.
LegacyLoaded ==
    (last.op \in {"section", "focus", "visible"}
        /\ IsLegacy(store[KeyOf(last.tab)])) =>
        /\ lastKnownLabelsJson[last.tab] =
               StringifyArray(store[KeyOf(last.tab)].labels)
        /\ labels[last.tab] = store[KeyOf(last.tab)].labels

\* The entries the scan makes of bare arrays that hold the label have the
\* url made of the document id (derived) or the url "".
LegacyFound(derived) ==
    ScanRan =>
        \A k \in AllKeys :
            (StartsWithPrefix(k) /\ IsLegacy(store[k])
                /\ Includes(store[k].labels, last.text)) =>
                \E i \in 1..Len(last.documents) :
                    last.documents[i] =
                        [id |-> StripPrefix(k), title |-> "Untitled",
                         url |-> IF derived THEN DefaultUrl(StripPrefix(k))
                                 ELSE "",
                         isCurrent |-> (StripPrefix(k) = documentId[last.tab])]

\* A bare array an import found keeps its labels in front, and when the import
\* wrote the key, the record has the label at the end and the title and url
\* of an entry of the payload (fromPayload) or the title "Untitled" and the
\* url "".
LegacyImported(fromPayload) ==
    ImportRan =>
        \A k \in AllKeys :
            IsLegacy(before[k]) =>
                /\ IsPrefix(before[k].labels, StoredLabels(store[k]))
                /\ store[k] # before[k] =>
                       \E i \in 1..Len(last.payload.documents) :
                           LET doc == last.payload.documents[i]
                           IN  store[k] =
                                   ObjectValue(
                                       Append(before[k].labels,
                                              last.payload.label),
                                       IF fromPayload
                                       THEN OrElse(doc.title, "Untitled")
                                       ELSE "Untitled",
                                       IF fromPayload THEN doc.url ELSE "")

\* C19 (as claimed): every reader takes a bare array as the record with the
\* labels of the array, the title "Untitled" and the url "".
C19_LegacyAsClaimed ==
    /\ LegacyLoaded
    /\ LegacyFound(FALSE)
    /\ LegacyImported(FALSE)

\* C19 (amended): every reader takes the labels of a bare array as they are;
\* the scan gives its entry the title "Untitled" and the url made of the
\* document id of the key, and an import that writes the record gives it the
\* title (or "Untitled") and the url of the entry of the payload.
C19_LegacyRead ==
    /\ LegacyLoaded
    /\ LegacyFound(TRUE)
    /\ LegacyImported(TRUE)

\* C19 witness: the scan has found the bare array of the other document and
\* given its entry the url made of the id.
C19_Witness ==
    /\ ScanRan
    /\ IsLegacy(store[getStorageKey("dB", "")])
    /\ IsLegacy(store[KeyOf(last.tab)])
    /\ labels[last.tab] = store[KeyOf(last.tab)].labels
    /\ \E i \in 1..Len(last.documents) :
          last.documents[i] = [id |-> "dB", title |-> "Untitled",
                               url |-> DefaultUrl("dB"), isCurrent |-> FALSE]

----------------------------------------------------------------------------
(* One tab on document dA that adds labels, imports and checks, with saves
   that may fail and no other writer. *)

ReloadPayloads ==
    {MalformedPayload,
     ObjectPayload(LabelA, <<EntryB>>),
     ObjectPayload(LabelA, <<EntryA, EntryB>>)}

InitReload ==
    /\ store \in [AllKeys -> StoredValues("dA") \cup {ForeignValue}]
    /\ store[ForeignKey] = ForeignValue
    /\ store[getStorageKey("dA", "")] \in
           {AbsentValue, MalformedValue, ArrayValue(<<LabelB>>),
            BareObjectValue("Notes", Undefined)}
    /\ store[getStorageKey("dB", "")] \in {AbsentValue, NullValue}
    /\ TabsStart

NextReload ==
    \/ InitSession(1)
    \/ CreateLabelsSection(1)
    \/ \E ok \in BOOLEAN : DeferredSave(1, "Report", ok)
    \/ \E ok \in BOOLEAN : AddLabel(1, "a", "Report", ok)
    \/ \E ok \in BOOLEAN : RemoveLabel(1, 0, "Report", ok)
    \/ WindowFocus(1)
    \/ \E p \in ReloadPayloads : ImportLabel(1, p, 0)

SpecReload == InitReload /\ [][NextReload]_vars

\* loadLabels has run: in createLabelsSection, or at the end of an import that
\* did not throw.
LoadRan == last.op = "section" \/ (ImportRan /\ last.result.success)

\* C21 (as claimed): after loadLabels the labels of the tab are the labels of
\* the stored value, none when the key is absent or its text is no record, and
\* lastKnownLabelsJson is the JSON of the same array.
C21_LoadDecodes ==
    LoadRan =>
        /\ labels[last.tab] = StoredLabels(store[KeyOf(last.tab)])
        /\ lastKnownLabelsJson[last.tab] =
               StringifyArray(StoredLabels(store[KeyOf(last.tab)]))

\* C22 (as claimed): when a focus or visibilitychange check finds a stored text
\* that JSON.parse rejects while lastKnownLabelsJson names at least one label,
\* the check empties labels, sets lastKnownLabelsJson to "[]" and calls
\* updateLabelsDisplay once.
C22_MalformedCheckEmpties ==
    (/\ CheckRan
     /\ ParseThrows(store[KeyOf(last.tab)])
     /\ last.preJson # StringifyArray(<<>>)) =>
        /\ labels[last.tab] = <<>>
        /\ lastKnownLabelsJson[last.tab] = StringifyArray(<<>>)
        /\ last.updates = 1

\* C26 (as claimed): the save of the timeout that createLabelsSection starts,
\* in a tab none of whose own saves failed (its labels are its last-known
\* labels), leaves the labels stored for the tab's document as they were just
\* before it, whatever other tabs stored since the tab's load.
C26_DeferredSaveKeepsLabels ==
    [][(/\ RecordedStep
        /\ last'.op = "timer"
        /\ last'.saved
        /\ StringifyArray(labels[last'.tab]) = lastKnownLabelsJson[last'.tab])
       => StoredLabels(store'[KeyOf(last'.tab)]) =
              StoredLabels(store[KeyOf(last'.tab)])]_vars

\* C28: an importLabel call changes the value of a key only if the payload
\* names the key's document by a url with a document id and the labels stored
\* under the key did not hold the payload's label; and a value that was stored
\* as an object and is changed is an object with the title and url it had.
C28_ImportFrame ==
    ImportRan =>
        \A k \in AllKeys :
            store[k] # before[k] =>
                /\ k \in TargetKeys(last.payload)
                /\ ~Includes(StoredLabels(before[k]), last.payload.label)
                /\ before[k].kind = "object" =>
                       /\ store[k].kind = "object"
                       /\ store[k].title = before[k].title
                       /\ store[k].url = before[k].url

\* An import added its label to a record stored as an object whose title is
\* not the title of the payload entry, and left the other document's record,
\* which holds the label already, as it was.
C28_Witness ==
    /\ ImportRan
    /\ last.payload = ObjectPayload(LabelA, <<EntryA, EntryB>>)
    /\ before[getStorageKey("dA", "")] = BareObjectValue("Notes", Undefined)
    /\ store[getStorageKey("dA", "")] =
           ObjectValue(<<LabelA>>, "Notes", Undefined)
    /\ Includes(StoredLabels(before[getStorageKey("dB", "")]), LabelA)
    /\ store[getStorageKey("dB", "")] = before[getStorageKey("dB", "")]

\* C27 (as claimed): after an importLabel call that returned success, the
\* labels and lastKnownLabelsJson of the tab are the labels stored for its
\* document, and a focus or visibilitychange check that comes next does not
\* call updateLabelsDisplay.
C27_ImportThenInSync ==
    [][(ImportRan /\ last.result.success) =>
           /\ labels[last.tab] = StoredLabels(store[KeyOf(last.tab)])
           /\ lastKnownLabelsJson[last.tab] =
                  StringifyArray(StoredLabels(store[KeyOf(last.tab)]))
           /\ CheckRan' => last'.updates = 0]_vars

----------------------------------------------------------------------------
(* One tab on document dA, no other writer, and a localStorage that takes
   every write. *)

InitSingle ==
    /\ store \in [AllKeys -> StoredValues("dA") \cup StoredValues("dB")
                                \cup {ForeignValue}]
    /\ store[ForeignKey] = ForeignValue
    /\ store[getStorageKey("dA", "")] \in
           {AbsentValue, MalformedValue, ArrayValue(<<LabelB>>),
            BareObjectValue("Notes", Undefined)}
    /\ store[getStorageKey("dB", "")] \in
           {AbsentValue, NullValue,
            ObjectValue(<<LabelB, LabelA>>, "Report",
                        DefaultUrl("dB") \o "?tab=t.0")}
    /\ TabsStart

NextSingle ==
    \/ InitSession(1)
    \/ CreateLabelsSection(1)
    \/ DeferredSave(1, "Report", TRUE)
    \/ AddLabel(1, "a", "Report", TRUE)
    \/ RemoveLabel(1, 0, "Report", TRUE)
    \/ DragStart(1, MaxLabels - 1)
    \/ DragEnd(1)
    \/ Drop(1, 0, "Report", TRUE)
    \/ WindowFocus(1)
    \/ VisibilityChange(1, "visible")
    \/ \E p \in ReloadPayloads : ImportLabel(1, p, 0)

SpecSingle == InitSingle /\ [][NextSingle]_vars

\* The operations of a tab that has built its section.
SessionOps ==
    {"section", "timer", "add", "remove", "drop", "import", "focus", "visible"}

\* C25 (as claimed): in one tab without another writer and without a failing
\* write, after the load, the deferred save, addLabel, removeLabel, a drop,
\* importLabel and a check, the labels of the tab, the labels of
\* lastKnownLabelsJson and the labels stored for the tab's document are equal.
C25_SingleSessionInSync ==
    last.op \in SessionOps =>
        /\ JsonArray(labels[last.tab]) = StoredLabels(store[KeyOf(last.tab)])
        /\ lastKnownLabelsJson[last.tab] = StringifyArray(labels[last.tab])

----------------------------------------------------------------------------
(* One tab on document dA whose saves may fail, and another writer of the
   record of dA. *)

FailureValues == {MalformedValue, NullValue, ArrayValue(<<LabelA, LabelB>>)}

InitFailure ==
    /\ store \in [AllKeys -> StoredValues("dA") \cup {ForeignValue}]
    /\ store[ForeignKey] = ForeignValue
    /\ store[getStorageKey("dA", "")] \in
           {AbsentValue, MalformedValue, ArrayValue(<<LabelB>>),
            ObjectValue(<<LabelB, LabelA>>, "Report",
                        DefaultUrl("dA") \o "?tab=t.0")}
    /\ store[getStorageKey("dB", "")] = AbsentValue
    /\ TabsStart

NextFailure ==
    \/ InitSession(1)
    \/ CreateLabelsSection(1)
    \/ \E ok \in BOOLEAN : AddLabel(1, "a", "Report", ok)
    \/ \E ok \in BOOLEAN : RemoveLabel(1, 0, "Report", ok)
    \/ DragStart(1, MaxLabels - 1)
    \/ DragEnd(1)
    \/ \E ok \in BOOLEAN : Drop(1, 0, "Report", ok)
    \/ WindowFocus(1)
    \/ VisibilityChange(1, "visible")
    \/ \E v \in FailureValues : ExternalWrite(getStorageKey("dA", ""), v)

SpecFailure == InitFailure /\ [][NextFailure]_vars

\* The record says that addLabel, removeLabel or the drop listener called
\* saveLabels and that setItem threw.
SaveFailed(ran) ==
    ran.op \in {"add", "remove", "drop"} /\ ran.updates = 1 /\ ~ran.saved

\* What a step with a failed save leaves: localStorage as it was, and in the tab
\* the labels with the change of the operation.
FailedSaveKeepsMutation ==
    (RecordedStep /\ SaveFailed(last')) =>
        LET t == last'.tab
        IN  /\ store' = store
            /\ last'.op = "add" =>
                   labels'[t] = Append(labels[t], Str(Trim(last'.text)))
            /\ last'.op = "remove" =>
                   labels'[t] = Without(labels[t], last'.index)
            /\ (last'.op = "drop" /\ InRange(labels[t], last'.index)) =>
                   /\ labels'[t][last'.to + 1] = labels[t][last'.index + 1]
                   /\ Without(labels'[t], last'.to) =
                          Without(labels[t], last'.index)

\* The step is a check that calls nothing and leaves the labels of the tab.
QuietCheck ==
    (RecordedStep /\ CheckRan') =>
        /\ last'.updates = 0
        /\ labels'[last'.tab] = labels[last'.tab]

\* C23 (as claimed): when setItem throws in addLabel, removeLabel or a drop,
\* localStorage is as before and the tab has the changed labels; a check that
\* is the next step calls nothing and leaves the changed labels.
C23_FailedSaveAsClaimed ==
    [][/\ FailedSaveKeepsMutation
       /\ SaveFailed(last) => QuietCheck]_vars

\* The step is a check that calls updateLabelsDisplay once and makes the
\* stored labels the labels and the last-known labels of the tab.
LoadingCheck ==
    (RecordedStep /\ CheckRan') =>
        LET t == last'.tab
        IN  /\ last'.updates = 1
            /\ labels'[t] = CurrentLabels(store[KeyOf(t)])
            /\ lastKnownLabelsJson'[t] = StringifyArray(labels'[t])
            /\ store' = store

\* C23 (amended): when setItem throws in addLabel, removeLabel or a drop,
\* localStorage is as before and the tab has the changed labels.  A check of
\* the tab that is the next step calls nothing and leaves the changed labels
\* when, before the operation, the stored value could not be read (no JSON, or
\* null) or held the last-known labels of the tab; when the stored value could
\* be read and held other labels than the last-known ones, the check calls
\* updateLabelsDisplay once and replaces the labels of the tab, the unsaved
\* change included, with the stored ones.
C23_FailedSaveKept ==
    [][/\ FailedSaveKeepsMutation
       /\ (SaveFailed(last) /\ ~last.differs) => QuietCheck
       /\ (SaveFailed(last) /\ last.differs) => LoadingCheck]_vars

\* C23 witness: a check ran after a drop whose save failed, and the tab still
\* has a, b while b, a is stored.
C23_Witness ==
    /\ CheckRan
    /\ last.preExt = NoExt
    /\ last.updates = 0
    /\ labels[last.tab] = <<LabelA, LabelB>>
    /\ StoredLabels(store[KeyOf(last.tab)]) = <<LabelB, LabelA>>
    /\ lastKnownLabelsJson[last.tab] = StringifyArray(<<LabelB, LabelA>>)

----------------------------------------------------------------------------
(* Two tabs on document dA, which has no record yet, with a localStorage that
   takes every write, so that every record is one the tabs stored. *)

InitConverge ==
    /\ store \in [AllKeys -> {AbsentValue, ForeignValue}]
    /\ store[ForeignKey] = ForeignValue
    /\ \A d \in DocIds : store[getStorageKey(d, "")] = AbsentValue
    /\ TabsStart

NextConverge ==
    \/ \E t \in Tabs :
          \/ InitSession(t)
          \/ CreateLabelsSection(t)
          \/ DeferredSave(t, "Report", TRUE)
          \/ AddLabel(t, TextOf(t), "Report", TRUE)
          \/ WindowFocus(t)
    \/ RemoveLabel(2, 0, "Report", TRUE)
    \/ DragStart(1, MaxLabels - 1)
    \/ DragEnd(1)
    \/ Drop(1, 0, "Report", TRUE)
    \/ ImportLabel(1, ObjectPayload(LabelB, <<EntryA>>), 0)

SpecConverge == InitConverge /\ [][NextConverge]_vars

\* Every tab has run a check since the last add, remove, drop or import of any
\* tab.
AllChecked == last.checkedSince = Tabs

\* C24: with two tabs on one document, no failing write and records that can
\* be read: once every tab has run a check after the last add, remove, drop or
\* import of any tab, every tab has the stored labels (as JSON holds them),
\* and a check that runs then calls nothing.
C24_Convergence ==
    [][/\ AllChecked =>
              \A t \in Tabs :
                  JsonArray(labels[t]) = StoredLabels(store[KeyOf(t)])
       /\ (AllChecked /\ RecordedStep /\ CheckRan') => last'.updates = 0]_vars

====
